---- MODULE Spec2Model ----
(***************************************************************************)
(* Task Tracker (src/scripts/scripts.js): the in-memory task collection,   *)
(* its handlers (add, edit, delete, toggle, clear), the render/sort cycle  *)
(* and the localStorage round trip.                                        *)
(*                                                                         *)
(* Representation.  A JavaScript string is a tuple of one-character        *)
(* strings (so that trim and concatenation are computed); JavaScript null  *)
(* in the field due is JsNull; the null/empty editId is NoId (both are     *)
(* falsy in the code's tests).  Date.now() is counted in milliseconds      *)
(* since the start of the session.  The handlers run to completion, so     *)
(* each one is a single action, and both clock reads of addTask (uid and   *)
(* createdAt) see the same millisecond.                                    *)
(***************************************************************************)
EXTENDS Integers, Sequences, FiniteSets, TLC

VARIABLES
    tasks,      \* let tasks: the in-memory array of Task objects
    editId,     \* let editId: id of the task being edited, NoId when adding
    storage,    \* localStorage slot 'taskTracker.tasks.v1'
    now,        \* Date.now()
    sortBy,     \* data-sort of the active sort button, "none" when none is active
    view,       \* the task cards last rendered into #task-list
    failedWrites, \* 'Failed to save tasks:' logged since the last write that succeeded
    pc,         \* "ready" in a session; "input", then "loaded", where loadTasks is applied
    last,       \* the last handler run: its name, target id, notice, write outcome
    other       \* the script's state in a second tab on the same localStorage

vars == <<tasks, editId, storage, now, sortBy, view, failedWrites, pc, last, other>>

-----------------------------------------------------------------------------
(* Bounds of the model. *)

\* the largest collection an add is explored from
MaxTasks == 2

\* the last millisecond of the session
MaxClock == 1

\* the most writes explored that fail one after the other
MaxFailedWrites == 2

\* the longest array explored as the content of the storage slot
MaxStoredLen == 2

\* the longest collection explored as the input of a sort
MaxSortLen == 3

-----------------------------------------------------------------------------
(* JavaScript strings. *)

WhiteSpace == {" "}

RECURSIVE TrimStart(_)
TrimStart(s) ==
    IF s # <<>> /\ Head(s) \in WhiteSpace THEN TrimStart(Tail(s)) ELSE s

RECURSIVE TrimEnd(_)
TrimEnd(s) ==
    IF s # <<>> /\ s[Len(s)] \in WhiteSpace
    THEN TrimEnd(SubSeq(s, 1, Len(s) - 1))
    ELSE s

\* String.prototype.trim
Trim(s) == TrimEnd(TrimStart(s))

Digits36 ==
    << "0", "1", "2", "3", "4", "5", "6", "7", "8", "9", "a", "b", "c", "d",
       "e", "f", "g", "h", "i", "j", "k", "l", "m", "n", "o", "p", "q", "r",
       "s", "t", "u", "v", "w", "x", "y", "z" >>

\* Number.prototype.toString(36) of a non-negative integer
RECURSIVE ToString36(_)
ToString36(n) ==
    IF n < Len(Digits36)
    THEN << Digits36[n + 1] >>
    ELSE ToString36(n \div Len(Digits36)) \o << Digits36[(n % Len(Digits36)) + 1] >>

\* Values of Math.random().toString(36).slice(2, 7): at most five digits
\* (0.5 prints as "0.i"), taken from a range far smaller than the clock's.
RandomSuffixes == { <<"i">>, <<"k", "3", "f", "9", "z">> }

\* uid(): the clock in base 36 followed by the random suffix
Uid(t, rnd) == ToString36(t) \o rnd

NoId == <<>>

JsNull == "null"

\* x || null on a string of the form
OrNull(s) == IF s = "" THEN JsNull ELSE s

Truthy(s) == s # <<>>

-----------------------------------------------------------------------------
(* JSON text in the storage slot. *)

Absent == [slot |-> "absent"]

SlotText(doc) == [slot |-> "text", doc |-> doc]

JNull == [j |-> "null"]
JNumber(n) == [j |-> "number", n |-> n]
JString(s) == [j |-> "string", s |-> s]
JBool(b) == [j |-> "boolean", b |-> b]
JArray(items) == [j |-> "array", items |-> items]
JObject(fields) == [j |-> "object", fields |-> fields]
\* text that JSON.parse rejects
JInvalid == [j |-> "invalid"]
\* the empty string
JEmpty == [j |-> "empty"]

TaskFields == {"id", "title", "due", "priority", "completed", "createdAt"}

\* a stringify that leaves out a due of null, as it would an undefined one
StringifyTaskDropsNull(t) ==
    IF t.due = JsNull
    THEN JObject([id |-> JString(t.id),
                  title |-> JString(t.title),
                  priority |-> JString(<<t.priority>>),
                  completed |-> JBool(t.completed),
                  createdAt |-> JNumber(t.createdAt)])
    ELSE JObject([id |-> JString(t.id),
                  title |-> JString(t.title),
                  due |-> JString(<<t.due>>),
                  priority |-> JString(<<t.priority>>),
                  completed |-> JBool(t.completed),
                  createdAt |-> JNumber(t.createdAt)])

\* JSON.stringify of one task object
StringifyTask(t) ==
    JObject([id |-> JString(t.id),
             title |-> JString(t.title),
             due |-> IF t.due = JsNull THEN JNull ELSE JString(<<t.due>>),
             priority |-> JString(<<t.priority>>),
             completed |-> JBool(t.completed),
             createdAt |-> JNumber(t.createdAt)])

\* JSON.stringify(tasks)
Stringify(ts) == JArray([i \in 1..Len(ts) |-> StringifyTask(ts[i])])

\* JSON.parse of an object with the six task fields, each of its stringified kind
IsTaskDoc(d) ==
    /\ d.j = "object"
    /\ DOMAIN d.fields = TaskFields
    /\ d.fields.id.j = "string"
    /\ d.fields.title.j = "string"
    /\ d.fields.due.j \in {"null", "string"}
    /\ d.fields.priority.j = "string"
    /\ d.fields.completed.j = "boolean"
    /\ d.fields.createdAt.j = "number"

\* JSON.parse of one array element: a task object becomes a task record, any
\* other value a tagged JavaScript value
ParseValue(d) ==
    IF IsTaskDoc(d)
    THEN [id |-> d.fields.id.s,
          title |-> d.fields.title.s,
          due |-> IF d.fields.due.j = "null" THEN JsNull ELSE d.fields.due.s[1],
          priority |-> d.fields.priority.s[1],
          completed |-> d.fields.completed.b,
          createdAt |-> d.fields.createdAt.n]
    ELSE [js |-> d.j, json |-> d]

IsTaskLike(x) == DOMAIN x = TaskFields

\* a loadTasks() that lets the exception of JSON.parse escape
LoadOutcomeUncaught(slot) ==
    IF slot = Absent THEN [value |-> <<>>, threw |-> FALSE]
    ELSE IF slot.doc = JEmpty THEN [value |-> <<>>, threw |-> FALSE]
    ELSE IF slot.doc = JInvalid THEN [value |-> <<>>, threw |-> TRUE]
    ELSE IF slot.doc.j # "array" THEN [value |-> <<>>, threw |-> FALSE]
    ELSE [value |-> [i \in 1..Len(slot.doc.items) |-> ParseValue(slot.doc.items[i])],
          threw |-> FALSE]

\* loadTasks(): the value it returns, and whether an exception leaves it
LoadOutcome(slot) ==
    IF slot = Absent THEN [value |-> <<>>, threw |-> FALSE]              \* getItem gives null: !raw
    ELSE IF slot.doc = JEmpty THEN [value |-> <<>>, threw |-> FALSE]     \* "" is falsy: !raw
    ELSE IF slot.doc = JInvalid THEN [value |-> <<>>, threw |-> FALSE]   \* JSON.parse throws: catch
    ELSE IF slot.doc.j # "array" THEN [value |-> <<>>, threw |-> FALSE]  \* !Array.isArray(parsed)
    ELSE [value |-> [i \in 1..Len(slot.doc.items) |-> ParseValue(slot.doc.items[i])],
          threw |-> FALSE]

LoadTasks(slot) == LoadOutcome(slot).value

\* a saveTasks() without its try/catch: the exception of setItem escapes
SaveTasksUncaught(slot, ts, setOk) ==
    IF setOk
    THEN [storage |-> SlotText(Stringify(ts)), threw |-> FALSE, logged |-> FALSE]
    ELSE [storage |-> slot, threw |-> TRUE, logged |-> FALSE]

\* a write that keeps the stored tasks the collection does not have
SaveTasksMerged(slot, ts, setOk) ==
    LET kept == SelectSeq(LoadTasks(slot),
                          LAMBDA t : \A i \in 1..Len(ts) : ts[i].id # t.id)
    IN  [storage |-> SlotText(Stringify(ts \o kept)), threw |-> FALSE, logged |-> FALSE]

\* saveTasks(): setOk is whether localStorage.setItem returns; when it throws
\* the catch logs and the slot keeps its value
SaveTasks(slot, ts, setOk) ==
    IF setOk
    THEN [storage |-> SlotText(Stringify(ts)), threw |-> FALSE, logged |-> FALSE]
    ELSE [storage |-> slot, threw |-> FALSE, logged |-> TRUE]

-----------------------------------------------------------------------------
(* renderTasks(): the ordered view (the second definition of renderTasks,   *)
(* lines 318-384, is the one in force: a later function declaration of the  *)
(* same name replaces the earlier one).                                     *)

\* a ranking of the priorities by their names
PriOrderByName(p) ==
    CASE p = "high" -> 0
      [] p = "low" -> 1
      [] p = "medium" -> 2

\* priOrder
PriOrder(p) ==
    CASE p = "high" -> 0
      [] p = "medium" -> 1
      [] p = "low" -> 2

\* new Date(due) of a date of the form, in days: the difference of two Date
\* values is the difference of their day numbers times 86,400,000
DateValue(d) ==
    CASE d = "2025-10-18" -> 20379
      [] d = "2025-10-19" -> 20380
      [] d = "2025-10-20" -> 20381

\* !t.due
NoDue(t) == t.due = JsNull \/ t.due = ""

\* a comparison that puts the tasks without a due date first
CompareUndatedFirst(a, b, key) ==
    IF key = "priority" THEN
        IF PriOrder(a.priority) - PriOrder(b.priority) # 0
        THEN PriOrder(a.priority) - PriOrder(b.priority)
        ELSE a.createdAt - b.createdAt
    ELSE IF key = "due" THEN
        IF NoDue(a) /\ NoDue(b) THEN a.createdAt - b.createdAt
        ELSE IF NoDue(a) THEN 0 - 1
        ELSE IF NoDue(b) THEN 1
        ELSE DateValue(a.due) - DateValue(b.due)
    ELSE a.createdAt - b.createdAt

\* the comparison function handed to list.sort under each sort key
Compare(a, b, key) ==
    IF key = "priority" THEN
        IF PriOrder(a.priority) - PriOrder(b.priority) # 0
        THEN PriOrder(a.priority) - PriOrder(b.priority)
        ELSE a.createdAt - b.createdAt
    ELSE IF key = "due" THEN
        IF NoDue(a) /\ NoDue(b) THEN a.createdAt - b.createdAt
        ELSE IF NoDue(a) THEN 1
        ELSE IF NoDue(b) THEN 0 - 1
        ELSE DateValue(a.due) - DateValue(b.due)
    ELSE a.createdAt - b.createdAt

\* an insertion that compares nothing: the list stays in the order it had
InsertAtEnd(sorted, x, key) == Append(sorted, x)

\* Array.prototype.sort is stable: an element goes after every element that
\* does not compare greater than it
RECURSIVE InsertSorted(_, _, _)
InsertSorted(sorted, x, key) ==
    IF sorted = <<>> THEN << x >>
    ELSE LET l == sorted[Len(sorted)] IN
         IF Compare(l, x, key) <= 0
         THEN Append(sorted, x)
         ELSE Append(InsertSorted(SubSeq(sorted, 1, Len(sorted) - 1), x, key), l)

RECURSIVE SortList(_, _)
SortList(list, key) ==
    IF list = <<>> THEN <<>>
    ELSE InsertSorted(SortList(SubSeq(list, 1, Len(list) - 1), key),
                      list[Len(list)], key)

\* the cards renderTasks leaves in #task-list: Array.from(tasks), sorted
RenderTasks(ts, key) ==
    IF ts = <<>> THEN <<>> ELSE SortList(ts, key)

-----------------------------------------------------------------------------
(* The collection. *)

HasId(ts, id) == \E i \in 1..Len(ts) : ts[i].id = id

\* index of the task tasks.find(x => x.id === id) returns: the first match
FindIndex(ts, id) ==
    CHOOSE i \in 1..Len(ts) :
        /\ ts[i].id = id
        /\ \A k \in 1..(i - 1) : ts[k].id # id

\* tasks.filter(x => x.id !== id)
RECURSIVE FilterOutId(_, _)
FilterOutId(ts, id) ==
    IF ts = <<>> THEN <<>>
    ELSE IF Head(ts).id # id
         THEN << Head(ts) >> \o FilterOutId(Tail(ts), id)
         ELSE FilterOutId(Tail(ts), id)

\* a filter with the test inverted: it keeps the completed tasks
RECURSIVE FilterCompleted(_)
FilterCompleted(ts) ==
    IF ts = <<>> THEN <<>>
    ELSE IF Head(ts).completed
         THEN << Head(ts) >> \o FilterCompleted(Tail(ts))
         ELSE FilterCompleted(Tail(ts))

\* tasks.filter(x => !x.completed)
RECURSIVE FilterNotCompleted(_)
FilterNotCompleted(ts) ==
    IF ts = <<>> THEN <<>>
    ELSE IF ~Head(ts).completed
         THEN << Head(ts) >> \o FilterNotCompleted(Tail(ts))
         ELSE FilterNotCompleted(Tail(ts))

\* the object literal of addTask
NewTask(title, due, priority, rnd, t) ==
    [id |-> Uid(t, rnd),
     title |-> Trim(title),
     due |-> OrNull(due),
     priority |-> priority,
     completed |-> FALSE,
     createdAt |-> t]

\* an edit that builds the task anew, as addTask does, and so resets completed
EditedTaskRebuilt(t, title, due, priority) ==
    [t EXCEPT !.title = Trim(title), !.due = OrNull(due), !.priority = priority,
              !.completed = FALSE]

\* the three assignments of updateTaskFromForm to the task found
EditedTask(t, title, due, priority) ==
    [t EXCEPT !.title = Trim(title), !.due = OrNull(due), !.priority = priority]

\* a toggle that only ever marks the task completed
ToggledTaskSet(t) == [t EXCEPT !.completed = TRUE]

\* t.completed = !t.completed
ToggledTask(t) == [t EXCEPT !.completed = ~t.completed]

NoNotice == "none"

\* what the last handler did: before is the length of the collection it found,
\* madeUp the number of failed writes that its successful write made up for
Outcome(op, id, notice, save, threw) ==
    [op |-> op, id |-> id, notice |-> notice, save |-> save, threw |-> threw,
     before |-> Len(tasks),
     madeUp |-> IF save = "ok" THEN failedWrites ELSE 0]

\* a tail that writes the collection as it was before the handler's change
SaveBeforeChange(op, id, ts, setOk) ==
    LET s == SaveTasks(storage, tasks, setOk) IN
    /\ tasks' = ts
    /\ storage' = s.storage
    /\ failedWrites' = IF s.logged THEN failedWrites + 1 ELSE IF setOk THEN 0 ELSE failedWrites
    /\ view' = IF s.threw THEN view ELSE RenderTasks(ts, sortBy)
    /\ last' = Outcome(op, id, NoNotice, IF setOk THEN "ok" ELSE "failed", s.threw)

\* The tail shared by the mutating handlers: saveTasks(); renderTasks().
\* An exception leaving saveTasks would end the handler before renderTasks.
SaveAndRender(op, id, ts, setOk) ==
    LET s == SaveTasks(storage, ts, setOk) IN
    /\ tasks' = ts
    /\ storage' = s.storage
    /\ failedWrites' = IF s.logged THEN failedWrites + 1 ELSE IF setOk THEN 0 ELSE failedWrites
    /\ view' = IF s.threw THEN view ELSE RenderTasks(ts, sortBy)
    /\ last' = Outcome(op, id, NoNotice, IF setOk THEN "ok" ELSE "failed", s.threw)

-----------------------------------------------------------------------------
(* The handlers. *)

\* an addTask that puts the new task in front (unshift in place of push)
AddTaskAtFront(title, due, priority, rnd, dt, setOk) ==
    /\ Len(tasks) < MaxTasks
    /\ now + dt <= MaxClock
    /\ now' = now + dt
    /\ SaveAndRender("add", Uid(now + dt, rnd),
                     << NewTask(title, due, priority, rnd, now + dt) >> \o tasks,
                     setOk)
    /\ UNCHANGED <<editId, sortBy, pc, other>>

\* addTask(title, due, priority); dt is the time elapsed since the clock was
\* last read
AddTask(title, due, priority, rnd, dt, setOk) ==
    /\ Len(tasks) < MaxTasks
    /\ now + dt <= MaxClock
    /\ now' = now + dt
    /\ SaveAndRender("add", Uid(now + dt, rnd),
                     Append(tasks, NewTask(title, due, priority, rnd, now + dt)),
                     setOk)
    /\ UNCHANGED <<editId, sortBy, pc, other>>

\* the collection after updateTaskFromForm has found its task
UpdateTask(ts, id, title, due, priority) ==
    [ts EXCEPT ![FindIndex(ts, id)] = EditedTask(@, title, due, priority)]

\* an updateTaskFromForm() without the test of the task found: the assignment
\* to the title of undefined throws
UpdateTaskFromFormUnchecked(op, title, due, priority, setOk) ==
    IF ~Truthy(editId) THEN
        /\ last' = Outcome(op, NoId, NoNotice, "none", FALSE)
        /\ UNCHANGED <<tasks, editId, storage, now, sortBy, view, failedWrites, pc, other>>
    ELSE IF ~HasId(tasks, editId) THEN
        /\ last' = Outcome(op, editId, NoNotice, "none", TRUE)
        /\ UNCHANGED <<tasks, editId, storage, now, sortBy, view, failedWrites, pc, other>>
    ELSE
        /\ SaveAndRender(op, editId, UpdateTask(tasks, editId, title, due, priority), setOk)
        /\ editId' = NoId
        /\ UNCHANGED <<now, sortBy, pc, other>>

\* updateTaskFromForm(), run by handler op with the form holding title, due, priority
UpdateTaskFromForm(op, title, due, priority, setOk) ==
    IF ~Truthy(editId) THEN
        /\ last' = Outcome(op, NoId, NoNotice, "none", FALSE)
        /\ UNCHANGED <<tasks, editId, storage, now, sortBy, view, failedWrites, pc, other>>
    ELSE IF ~HasId(tasks, editId) THEN
        /\ last' = Outcome(op, editId, "Task not found", "none", FALSE)
        /\ UNCHANGED <<tasks, editId, storage, now, sortBy, view, failedWrites, pc, other>>
    ELSE
        /\ SaveAndRender(op, editId, UpdateTask(tasks, editId, title, due, priority), setOk)
        /\ editId' = IF last'.threw THEN editId ELSE NoId    \* cancelEdit()
        /\ UNCHANGED <<now, sortBy, pc, other>>

\* form 'submit' listener
SubmitForm(title, due, priority, rnd, dt, setOk) ==
    IF ~Truthy(Trim(title)) THEN
        /\ last' = Outcome("submit", NoId, "Please enter a task name.", "none", FALSE)
        /\ UNCHANGED <<tasks, editId, storage, now, sortBy, view, failedWrites, pc, other>>
    ELSE IF Truthy(editId) THEN
        UpdateTaskFromForm("update", title, due, priority, setOk)
    ELSE
        AddTask(title, OrNull(due), priority, rnd, dt, setOk)

\* update button 'click' listener
UpdateClick(title, due, priority, setOk) ==
    UpdateTaskFromForm("update", title, due, priority, setOk)

\* startEditTask(id)
StartEditTask(id) ==
    /\ IF HasId(tasks, id)
       THEN /\ editId' = id
            /\ last' = Outcome("startEdit", id, NoNotice, "none", FALSE)
       ELSE /\ editId' = editId
            /\ last' = Outcome("startEdit", id, "Task not found", "none", FALSE)
    /\ UNCHANGED <<tasks, storage, now, sortBy, view, failedWrites, pc, other>>

\* cancelEdit(), the cancel button's listener
CancelEdit ==
    /\ editId' = NoId
    /\ last' = Outcome("cancelEdit", NoId, NoNotice, "none", FALSE)
    /\ UNCHANGED <<tasks, storage, now, sortBy, view, failedWrites, pc, other>>

\* a handler that returns because confirm() was declined
Declined ==
    /\ last' = Outcome("declined", NoId, NoNotice, "none", FALSE)
    /\ UNCHANGED <<tasks, editId, storage, now, sortBy, view, failedWrites, pc, other>>

\* deleteTask(id)
DeleteTask(id, confirmed, setOk) ==
    IF ~confirmed THEN Declined
    ELSE /\ SaveAndRender("delete", id, FilterOutId(tasks, id), setOk)
         /\ UNCHANGED <<editId, now, sortBy, pc, other>>

\* the collection after toggleComplete has found its task
ToggleTask(ts, id) ==
    [ts EXCEPT ![FindIndex(ts, id)] = ToggledTask(@)]

\* toggleComplete(id)
ToggleComplete(id, setOk) ==
    IF ~HasId(tasks, id) THEN
        /\ last' = Outcome("toggle", id, NoNotice, "none", FALSE)
        /\ UNCHANGED <<tasks, editId, storage, now, sortBy, view, failedWrites, pc, other>>
    ELSE
        /\ SaveAndRender("toggle", id, ToggleTask(tasks, id), setOk)
        /\ UNCHANGED <<editId, now, sortBy, pc, other>>

\* clearCompleted()
ClearCompleted(confirmed, setOk) ==
    IF ~confirmed THEN Declined
    ELSE /\ SaveAndRender("clearCompleted", NoId, FilterNotCompleted(tasks), setOk)
         /\ UNCHANGED <<editId, now, sortBy, pc, other>>

\* clearAllStorage()
ClearAllStorage(confirmed, setOk) ==
    IF ~confirmed THEN Declined
    ELSE /\ SaveAndRender("clearAll", NoId, <<>>, setOk)
         /\ UNCHANGED <<editId, now, sortBy, pc, other>>

\* a click whose render sorts tasks itself (list = tasks in place of
\* Array.from(tasks))
SortClickInPlace(key) ==
    /\ sortBy' = key
    /\ tasks' = RenderTasks(tasks, key)
    /\ view' = RenderTasks(tasks, key)
    /\ last' = Outcome("sort", NoId, NoNotice, "none", FALSE)
    /\ UNCHANGED <<editId, storage, now, failedWrites, pc, other>>

\* sort button 'click' listener
SortClick(key) ==
    /\ sortBy' = key
    /\ view' = RenderTasks(tasks, key)
    /\ last' = Outcome("sort", NoId, NoNotice, "none", FALSE)
    /\ UNCHANGED <<tasks, editId, storage, now, failedWrites, pc, other>>

\* init(), run again by a reload of the page: the script's state starts over
\* and the collection is what loadTasks() reads
InitPage ==
    /\ tasks' = LoadTasks(storage)
    /\ editId' = NoId
    /\ sortBy' = "none"
    /\ view' = RenderTasks(LoadTasks(storage), "none")
    /\ failedWrites' = 0
    /\ last' = Outcome("init", NoId, NoNotice, "none", FALSE)
    /\ UNCHANGED <<storage, now, pc, other>>

-----------------------------------------------------------------------------
(* Inputs. *)

\* what the form holds when a handler reads it: title, due, priority
Form(title, due, priority) == [title |-> title, due |-> due, priority |-> priority]

FormInputs ==
    { Form(<<" ">>, "", "medium"),
      Form(<<" ", "b", " ">>, "2025-10-18", "low") }

\* an id that uid() never returned
UnknownId == <<"x">>

\* the ids of the tasks at hand: those of the cards and their buttons
PresentIds(ts) == { ts[i].id : i \in 1..Len(ts) }

\* the ids a handler is called with: those of the tasks at hand, and one that
\* matches no task
TargetIds(ts) == PresentIds(ts) \cup {UnknownId}

\* the time that may have passed since the clock was last read
Elapsed == {0, 1}

SortKeys == {"created", "priority", "due"}

\* no second tab is open
NoTab ==
    [open |-> FALSE, tasks |-> <<>>, editId |-> NoId, sortBy |-> "none",
     view |-> <<>>, failedWrites |-> 0, lastWrite |-> "none"]

\* the state after the script has run on a profile whose slot is empty
Init ==
    /\ tasks = <<>>
    /\ editId = NoId
    /\ storage = Absent
    /\ now = 0
    /\ sortBy = "none"
    /\ view = <<>>
    /\ failedWrites = 0
    /\ pc = "ready"
    /\ last = Outcome("init", NoId, NoNotice, "none", FALSE)
    /\ other = NoTab

\* a session on a storage medium that takes every write: the user's events,
\* with the form's fields and the confirm() answers drawn from their sets
Next ==
    \/ \E f \in FormInputs, rnd \in RandomSuffixes, dt \in Elapsed :
          SubmitForm(f.title, f.due, f.priority, rnd, dt, TRUE)
    \/ \E f \in FormInputs : UpdateClick(f.title, f.due, f.priority, TRUE)
    \/ \E id \in TargetIds(tasks) : StartEditTask(id)
    \/ CancelEdit
    \/ \E id \in TargetIds(tasks), confirmed \in BOOLEAN : DeleteTask(id, confirmed, TRUE)
    \/ \E id \in TargetIds(tasks) : ToggleComplete(id, TRUE)
    \/ \E confirmed \in BOOLEAN : ClearCompleted(confirmed, TRUE)
    \/ \E confirmed \in BOOLEAN : ClearAllStorage(confirmed, TRUE)
    \/ InitPage

Spec == Init /\ [][Next]_vars

-----------------------------------------------------------------------------
(* A session on a storage medium whose writes may fail (quota exceeded,     *)
(* storage unavailable): localStorage.setItem either returns or throws.     *)

\* the outcomes of localStorage.setItem explored: a failure only after fewer
\* than MaxFailedWrites failures in a row
SetOutcomes == { ok \in BOOLEAN : ok \/ failedWrites < MaxFailedWrites }

\* the six mutating operations, confirmed, on the tasks at hand; every uid()
\* draws the same random suffix
NextQuota ==
    \/ \E f \in FormInputs, dt \in Elapsed, setOk \in SetOutcomes :
          SubmitForm(f.title, f.due, f.priority, <<"i">>, dt, setOk)
    \/ \E f \in FormInputs, setOk \in SetOutcomes :
          UpdateClick(f.title, f.due, f.priority, setOk)
    \/ \E id \in PresentIds(tasks) : StartEditTask(id)
    \/ \E id \in PresentIds(tasks), setOk \in SetOutcomes : DeleteTask(id, TRUE, setOk)
    \/ \E id \in PresentIds(tasks), setOk \in SetOutcomes : ToggleComplete(id, setOk)
    \/ \E setOk \in SetOutcomes : ClearCompleted(TRUE, setOk)
    \/ \E setOk \in SetOutcomes : ClearAllStorage(TRUE, setOk)

SpecQuota == Init /\ [][NextQuota]_vars

-----------------------------------------------------------------------------
(* A session of adds and toggles: the collections that addTask builds, with *)
(* the three forms of seedSample (titles shortened) and a blank one.        *)

AddForms ==
    { Form(<<" ">>, "", "medium"),
      Form(<<"f">>, "2025-10-20", "high"),
      Form(<<"g", " ">>, "", "low"),
      Form(<<" ", "p">>, "2025-10-18", "medium") }

NextAdd ==
    \/ \E f \in AddForms, rnd \in RandomSuffixes, dt \in Elapsed :
          SubmitForm(f.title, f.due, f.priority, rnd, dt, TRUE)
    \/ \E id \in TargetIds(tasks) : ToggleComplete(id, TRUE)

SpecAdd == Init /\ [][NextAdd]_vars

-----------------------------------------------------------------------------
(* loadTasks() applied to what the storage slot may hold. *)

StoredTask(id, title, due, priority, completed, createdAt) ==
    JObject([id |-> JString(id), title |-> JString(title), due |-> due,
             priority |-> JString(<<priority>>), completed |-> JBool(completed),
             createdAt |-> JNumber(createdAt)])

\* elements of a stored array: task records and values that are none
ElementInputs ==
    { StoredTask(<<"0", "i">>, <<"a">>, JNull, "high", FALSE, 0),
      StoredTask(<<"1", "i">>, <<"b">>, JString(<<"2025-10-18">>), "low", TRUE, 1),
      JNumber(1),
      JNull,
      JString(<<"a">>),
      JObject([id |-> JString(<<"0", "i">>)]),
      JArray(<<>>) }

ArrayInputs == UNION { [1..n -> ElementInputs] : n \in 0..MaxStoredLen }

SlotInputs ==
    { Absent, SlotText(JEmpty), SlotText(JInvalid), SlotText(JNull),
      SlotText(JNumber(7)), SlotText(JString(<<"a">>)), SlotText(JBool(TRUE)),
      SlotText(JObject([id |-> JString(<<"0", "i">>)])) }
    \cup { SlotText(JArray(items)) : items \in ArrayInputs }

InitLoad ==
    /\ storage \in SlotInputs
    /\ tasks = <<>>
    /\ editId = NoId
    /\ now = 0
    /\ sortBy = "none"
    /\ view = <<>>
    /\ failedWrites = 0
    /\ pc = "input"
    /\ last = Outcome("none", NoId, NoNotice, "none", FALSE)
    /\ other = NoTab

\* tasks = loadTasks(), the first statement of init()
LoadStep ==
    /\ pc = "input"
    /\ tasks' = IF LoadOutcome(storage).threw THEN tasks ELSE LoadTasks(storage)
    /\ pc' = "loaded"
    /\ last' = Outcome("load", NoId, NoNotice, "none", LoadOutcome(storage).threw)
    /\ UNCHANGED <<editId, storage, now, sortBy, view, failedWrites, other>>

NextLoad == LoadStep

SpecLoad == InitLoad /\ [][NextLoad]_vars

-----------------------------------------------------------------------------
(* Two tabs on one localStorage.  Each tab runs the script with its own     *)
(* tasks and editId; the slot and the clock are shared.  The variables      *)
(* tasks, editId, sortBy, view and failedWrites are those of the tab that   *)
(* handles the next event, other holds those of the tab that does not.      *)
(* other.lastWrite tells which tab had written the slot last when the tabs  *)
(* last changed places: "here" the one at hand, "there" the one away.       *)

\* the tab at hand goes away; lastWrite is seen from the tab that takes over
AwayTab ==
    [open |-> TRUE, tasks |-> tasks, editId |-> editId, sortBy |-> sortBy,
     view |-> view, failedWrites |-> failedWrites,
     lastWrite |-> IF last.save = "ok" THEN "there"
                   ELSE IF other.lastWrite = "there" THEN "here"
                   ELSE IF other.lastWrite = "here" THEN "there"
                   ELSE "none"]

\* the page is opened in a second tab: init() runs there, on the slot as it is
OpenTab ==
    /\ ~other.open
    /\ other' = AwayTab
    /\ tasks' = LoadTasks(storage)
    /\ editId' = NoId
    /\ sortBy' = "none"
    /\ view' = RenderTasks(LoadTasks(storage), "none")
    /\ failedWrites' = 0
    /\ last' = Outcome("init", NoId, NoNotice, "none", FALSE)
    /\ UNCHANGED <<storage, now, pc>>

\* the next event goes to the other tab
SwitchTab ==
    /\ other.open
    /\ other' = AwayTab
    /\ tasks' = other.tasks
    /\ editId' = other.editId
    /\ sortBy' = other.sortBy
    /\ view' = other.view
    /\ failedWrites' = other.failedWrites
    /\ last' = Outcome("switch", NoId, NoNotice, "none", FALSE)
    /\ UNCHANGED <<storage, now, pc>>

\* the form of an add in either tab
TabForms == { Form(<<" ", "b", " ">>, "2025-10-18", "low") }

\* adds, toggles and deletes in either tab, each of which writes the slot
NextTabs ==
    \/ \E f \in TabForms, rnd \in RandomSuffixes, dt \in Elapsed :
          SubmitForm(f.title, f.due, f.priority, rnd, dt, TRUE)
    \/ \E id \in PresentIds(tasks) : ToggleComplete(id, TRUE)
    \/ \E id \in PresentIds(tasks) : DeleteTask(id, TRUE, TRUE)
    \/ OpenTab
    \/ SwitchTab

SpecTabs == Init /\ [][NextTabs]_vars

-----------------------------------------------------------------------------
(* renderTasks() on the collections init() can load: the slot holds an array *)
(* of tasks in any order (written by another session, or by hand), and the  *)
(* sort buttons are clicked.                                                 *)

\* the tasks stored: every due, priority and createdAt of their small sets
SortTasks ==
    { [id |-> Uid(c, <<"i">>), title |-> <<"a">>, due |-> d, priority |-> p,
       completed |-> FALSE, createdAt |-> c] :
        d \in {JsNull, "2025-10-18", "2025-10-20"},
        p \in {"high", "medium", "low"},
        c \in {0, 1} }

SortInputs == UNION { [1..n -> SortTasks] : n \in 0..MaxSortLen }

\* the state after init() has run on such a slot
InitSort ==
    /\ storage \in { SlotText(Stringify(ts)) : ts \in SortInputs }
    /\ tasks = LoadTasks(storage)
    /\ editId = NoId
    /\ now = 1
    /\ sortBy = "none"
    /\ view = RenderTasks(tasks, "none")
    /\ failedWrites = 0
    /\ pc = "ready"
    /\ last = Outcome("init", NoId, NoNotice, "none", FALSE)
    /\ other = NoTab

NextSort == \E key \in SortKeys : SortClick(key)

SpecSort == InitSort /\ [][NextSort]_vars

-----------------------------------------------------------------------------
(* Properties. *)

Indices(ts) == 1..Len(ts)

\* ts without its k-th element
RemoveAt(ts, k) == [i \in 1..(Len(ts) - 1) |-> IF i < k THEN ts[i] ELSE ts[i + 1]]

\* C1: after any sequence of add, edit, delete and toggle-complete from the
\* empty collection, no two tasks of the collection have the same id.
IdsUnique ==
    \A i, k \in Indices(tasks) : i # k => tasks[i].id # tasks[k].id

\* C2: saving a collection on a working medium and loading it again gives a
\* collection of the same length and order whose tasks have the same id,
\* title, due, priority, completed and createdAt.
RoundTrip ==
    LET loaded == LoadTasks(SaveTasks(storage, tasks, TRUE).storage) IN
    /\ Len(loaded) = Len(tasks)
    /\ \A i \in Indices(tasks) :
          /\ IsTaskLike(loaded[i])
          /\ loaded[i].id = tasks[i].id
          /\ loaded[i].title = tasks[i].title
          /\ loaded[i].due = tasks[i].due
          /\ loaded[i].priority = tasks[i].priority
          /\ loaded[i].completed = tasks[i].completed
          /\ loaded[i].createdAt = tasks[i].createdAt

\* an add has just made a collection of two, one task dated and one not, one
\* completed, and the slot holds it
RoundTripWitness ==
    /\ last.op = "add"
    /\ last.save = "ok"
    /\ Len(tasks) = 2
    /\ tasks[1].due # JsNull
    /\ tasks[1].completed
    /\ tasks[2].due = JsNull
    /\ tasks[2].priority = "low"
    /\ LoadTasks(storage) = tasks

\* C3: after a mutating operation whose write succeeded, the slot
\* deserializes to exactly the in-memory collection, however many earlier
\* writes failed.
SlotFollowsWrite ==
    last.save = "ok" => storage # Absent /\ LoadTasks(storage) = tasks

\* two writes have failed, and the write of a toggle after them succeeded
SlotFollowsWriteWitness ==
    /\ last.madeUp >= 2
    /\ last.op = "toggle"
    /\ last.save = "ok"
    /\ Len(tasks) = 2

\* the collections a handler named op, called with id, can leave from ts when
\* its write succeeds
ResultsOf(op, id, ts, eid, t) ==
    CASE op = "add" ->
           { Append(ts, NewTask(f.title, OrNull(f.due), f.priority, rnd, t)) :
               f \in FormInputs, rnd \in RandomSuffixes }
      [] op = "update" ->
           { UpdateTask(ts, eid, f.title, f.due, f.priority) : f \in FormInputs }
      [] op = "delete" -> { FilterOutId(ts, id) }
      [] op = "toggle" -> { ToggleTask(ts, id) }
      [] op = "clearCompleted" -> { FilterNotCompleted(ts) }
      [] op = "clearAll" -> { <<>> }

\* C4: when the write of a mutating operation fails, no error leaves the
\* operation, it runs to its end (the edit mode is left, the list is
\* rendered), and the collection holds the result the operation has when the
\* write succeeds.
WriteFailureContained ==
    [][ last'.save = "failed" =>
          /\ ~last'.threw
          /\ view' = RenderTasks(tasks', sortBy')
          /\ (last'.op = "update" => editId' = NoId)
          /\ tasks' \in ResultsOf(last'.op, last'.id, tasks, editId, now')
      ]_vars

\* the write of an edit has failed: the slot does not hold the collection
WriteFailureContainedWitness ==
    /\ last.op = "update"
    /\ last.save = "failed"
    /\ Len(tasks) = 2
    /\ LoadTasks(storage) # tasks

\* what loadTasks finds in the slot is no array
NoArrayStored ==
    \/ storage = Absent
    \/ storage.doc \in {JEmpty, JInvalid}
    \/ storage.doc.j # "array"

\* C5: loadTasks returns the empty collection, and raises nothing, when the
\* slot is absent, holds text that does not parse, or holds a value that is
\* not an array.
LoadToleratesNoArray ==
    (pc = "loaded" /\ NoArrayStored) => tasks = <<>> /\ ~last.threw

\* loadTasks has been applied to text that does not parse
LoadToleratesNoArrayWitness ==
    /\ pc = "loaded"
    /\ storage # Absent
    /\ storage.doc = JInvalid
    /\ tasks = <<>>

\* C6: loadTasks returns the empty collection when the stored array is not a
\* sequence of task-like records, so every element it returns is a task-like
\* record.
LoadYieldsTaskRecords ==
    pc = "loaded" => \A i \in Indices(tasks) : IsTaskLike(tasks[i])

\* C7: an edit whose target is no longer in the collection signals 'Task not
\* found' and leaves the collection as it was.
EditOfMissingTask ==
    [][ (last'.op = "update" /\ Truthy(editId) /\ ~HasId(tasks, editId)) =>
          /\ last'.notice = "Task not found"
          /\ ~last'.threw
          /\ tasks' = tasks
      ]_vars

\* an edit has found its target gone, with another task in the collection
EditOfMissingTaskWitness ==
    /\ last.op = "update"
    /\ last.notice = "Task not found"
    /\ Truthy(editId)
    /\ ~HasId(tasks, editId)
    /\ Len(tasks) >= 1

\* C8: a successful edit changes only the title, due and priority of its
\* task: the task keeps its id, createdAt, completed and position, and every
\* other task is unchanged.
EditFrame ==
    [][ (last'.op = "update" /\ Truthy(editId) /\ HasId(tasks, editId)) =>
          /\ Len(tasks') = Len(tasks)
          /\ \E k \in Indices(tasks) :
                /\ tasks[k].id = editId
                /\ tasks'[k].id = tasks[k].id
                /\ tasks'[k].createdAt = tasks[k].createdAt
                /\ tasks'[k].completed = tasks[k].completed
                /\ \A i \in Indices(tasks) \ {k} : tasks'[i] = tasks[i]
      ]_vars

\* an edit has emptied the title of the completed second task of two
EditFrameWitness ==
    /\ last.op = "update"
    /\ last.save = "ok"
    /\ Len(tasks) = 2
    /\ tasks[2].id = last.id
    /\ tasks[1].id # last.id
    /\ tasks[2].completed
    /\ tasks[2].title = <<>>
    /\ tasks[1].title # <<>>

\* C9: clearCompleted leaves the subsequence of the tasks that are not
\* completed, each as it was.
ClearCompletedFrame ==
    [][ (last'.op = "clearCompleted") =>
          tasks' = SelectSeq(tasks, LAMBDA t : t.completed = FALSE)
      ]_vars

\* clearCompleted has removed one of two tasks
ClearCompletedFrameWitness ==
    /\ last.op = "clearCompleted"
    /\ last.before = 2
    /\ Len(tasks) = 1

\* C10: delete(id) removes the task with that id and leaves every other task,
\* its fields and the order unchanged; when no task has the id the collection
\* is unchanged and no error is signalled.
DeleteFrame ==
    [][ (last'.op = "delete") =>
          /\ last'.notice = NoNotice
          /\ ~last'.threw
          /\ IF HasId(tasks, last'.id)
             THEN \E k \in Indices(tasks) :
                     tasks[k].id = last'.id /\ tasks' = RemoveAt(tasks, k)
             ELSE tasks' = tasks
      ]_vars

\* C11: toggleComplete(id) on a task of the collection flips its completed
\* flag and changes no other field of it and no other task, and a second
\* toggleComplete(id) right after it gives back the collection as it was;
\* for an id that no task has, the collection and the slot stay as they are.
ToggleTwice ==
    [][ (last'.op = "toggle") =>
          IF HasId(tasks, last'.id)
          THEN /\ Len(tasks') = Len(tasks)
               /\ \E k \in Indices(tasks) :
                     /\ tasks[k].id = last'.id
                     /\ tasks'[k].completed = ~tasks[k].completed
                     /\ [tasks'[k] EXCEPT !.completed = tasks[k].completed] = tasks[k]
                     /\ \A i \in Indices(tasks) \ {k} : tasks'[i] = tasks[i]
               /\ ToggleTask(tasks', last'.id) = tasks
          ELSE /\ tasks' = tasks
               /\ storage' = storage
               /\ ~last'.threw
      ]_vars

\* a second toggle has taken the first of two tasks back to not completed,
\* next to a task that stays completed
ToggleTwiceWitness ==
    /\ last.op = "toggle"
    /\ last.save = "ok"
    /\ Len(tasks) = 2
    /\ tasks[1].id = last.id
    /\ ~tasks[1].completed
    /\ tasks[2].completed

TitlesTrimmedNonEmpty ==
    \A i \in Indices(tasks) :
        /\ tasks[i].title # <<>>
        /\ tasks[i].title[1] \notin WhiteSpace
        /\ tasks[i].title[Len(tasks[i].title)] \notin WhiteSpace

\* C20: in every reachable state in which the form is in edit mode, a task
\* of the collection has the id editId.
EditIdPointsToTask ==
    Truthy(editId) => HasId(tasks, editId)

\* a task without a due date, as the collection holds it
Undated(t) == t.due = JsNull

\* the rank the priorities have in the ordered view
PriorityRank(p) == IF p = "high" THEN 0 ELSE IF p = "medium" THEN 1 ELSE 2

\* C12: the view rendered under the 'due' key has every undated task after
\* every dated task, the dated tasks in ascending order of their dates, and
\* the undated tasks in ascending order of createdAt.
DueOrder ==
    sortBy = "due" =>
        \A i, k \in Indices(view) : i < k =>
            /\ (Undated(view[i]) => Undated(view[k]))
            /\ (~Undated(view[i]) /\ ~Undated(view[k]) =>
                   DateValue(view[i].due) <= DateValue(view[k].due))
            /\ (Undated(view[i]) /\ Undated(view[k]) =>
                   view[i].createdAt <= view[k].createdAt)

\* the collection due 2025-10-20, undated, due 2025-10-18 has been rendered
\* under 'due' as 2025-10-18, 2025-10-20, undated
DueOrderWitness ==
    /\ sortBy = "due"
    /\ last.op = "sort"
    /\ Len(tasks) = 3
    /\ tasks[1].due = "2025-10-20"
    /\ Undated(tasks[2])
    /\ tasks[3].due = "2025-10-18"
    /\ Len(view) = 3
    /\ view[1] = tasks[3]
    /\ view[2] = tasks[1]
    /\ view[3] = tasks[2]

\* C13: the view rendered under the 'priority' key has every high task
\* before every medium task and every medium task before every low task, and
\* tasks of equal priority in ascending order of createdAt.
PriorityOrder ==
    sortBy = "priority" =>
        \A i, k \in Indices(view) : i < k =>
            /\ PriorityRank(view[i].priority) <= PriorityRank(view[k].priority)
            /\ (view[i].priority = view[k].priority =>
                   view[i].createdAt <= view[k].createdAt)

\* the collection low, high, medium has been rendered as high, medium, low
PriorityOrderWitness ==
    /\ sortBy = "priority"
    /\ last.op = "sort"
    /\ Len(tasks) = 3
    /\ tasks[1].priority = "low"
    /\ tasks[2].priority = "high"
    /\ tasks[3].priority = "medium"
    /\ Len(view) = 3
    /\ view[1] = tasks[2]
    /\ view[2] = tasks[3]
    /\ view[3] = tasks[1]

\* C14: in the view rendered under the 'due' key two tasks with the same due
\* date are in ascending order of createdAt.
DueTieBreak ==
    sortBy = "due" =>
        \A i, k \in Indices(view) :
            (i < k /\ ~Undated(view[i]) /\ view[i].due = view[k].due) =>
                view[i].createdAt <= view[k].createdAt

\* C15: the view rendered under the 'created' key, and under no key, is
\* non-decreasing in createdAt.
CreatedOrder ==
    sortBy \in {"created", "none"} =>
        \A i, k \in Indices(view) : i < k => view[i].createdAt <= view[k].createdAt

\* a collection whose later task was created first has been rendered under
\* 'created' with that task moved to the front
CreatedOrderWitness ==
    /\ sortBy = "created"
    /\ last.op = "sort"
    /\ Len(tasks) = 3
    /\ tasks[1].createdAt = 1
    /\ tasks[2].createdAt = 1
    /\ tasks[3].createdAt = 0
    /\ tasks[1] # tasks[2]
    /\ view = << tasks[3], tasks[1], tasks[2] >>

\* C18: a click on a sort button, which makes the button's key the active
\* one and renders, leaves the collection (its tasks, their fields, their
\* order) and the storage slot as they were.
RenderKeepsCollection ==
    [][ (last'.op = "sort") =>
          /\ tasks' = tasks
          /\ storage' = storage
          /\ LoadTasks(storage') = tasks'
      ]_vars

\* a render under 'priority' has shown the tasks in another order than the
\* collection's, after a render under 'due'
RenderKeepsCollectionWitness ==
    /\ last.op = "sort"
    /\ sortBy = "priority"
    /\ Len(tasks) = 3
    /\ view # tasks
    /\ view[1] = tasks[3]
    /\ tasks[1].priority = "low"
    /\ tasks[3].priority = "high"

\* the tab whose write was the last: "here" the tab at hand, "there" the
\* other one, "none" when the slot has not been written
LastWriter == IF last.save = "ok" THEN "here" ELSE other.lastWrite

\* C19: with two tabs on one slot, each loading it once when it starts and
\* writing its whole collection at every change, the slot holds exactly the
\* collection of the tab that wrote last: a task that only the other tab has
\* is not in the slot.
LastWriterWins ==
    /\ (LastWriter = "none" => storage = Absent)
    /\ (LastWriter = "here" =>
          /\ LoadTasks(storage) = tasks
          /\ \A i \in Indices(other.tasks) :
                (\A k \in Indices(tasks) : tasks[k] # other.tasks[i]) =>
                    \A k \in Indices(LoadTasks(storage)) :
                        LoadTasks(storage)[k] # other.tasks[i])
    /\ (LastWriter = "there" =>
          /\ LoadTasks(storage) = other.tasks
          /\ \A i \in Indices(tasks) :
                (\A k \in Indices(other.tasks) : other.tasks[k] # tasks[i]) =>
                    \A k \in Indices(LoadTasks(storage)) :
                        LoadTasks(storage)[k] # tasks[i])

\* the tab at hand added a task at time 0 and has just toggled it; the other
\* tab added its task at time 1, after the tab at hand had loaded: the slot
\* holds the toggled task and not the other tab's
LastWriterWinsWitness ==
    /\ other.open
    /\ last.op = "toggle"
    /\ last.save = "ok"
    /\ Len(tasks) = 1
    /\ tasks[1].createdAt = 0
    /\ tasks[1].completed
    /\ Len(other.tasks) = 1
    /\ other.tasks[1].createdAt = 1
    /\ Len(LoadTasks(storage)) = 1
    /\ LoadTasks(storage)[1] = tasks[1]
    /\ LoadTasks(storage)[1].id # other.tasks[1].id

====
